---- MODULE Spec2Model ----
(***************************************************************************)
(* Model of src/app1.py: the Streamlit profit/loss calculator.  The state  *)
(* is the four uploaded files, the two numeric settings and the result of  *)
(* process_data (the reconciled table df_orders_final and the stats        *)
(* dictionary).  Data frames are sequences of records; a cell that pandas  *)
(* would coerce is a record [num, v]: a number, or text that to_numeric    *)
(* turns into NaN.                                                         *)
(***************************************************************************)
EXTENDS Integers, Sequences, FiniteSets, TLC

VARIABLES orders_file, same_month_file, next_month_file, cost_file,
          pack_cost, misc_cost, excel_data, stats, pc

vars == <<orders_file, same_month_file, next_month_file, cost_file,
          pack_cost, misc_cost, excel_data, stats, pc>>

-----------------------------------------------------------------------------
(* Bounds of the explored inputs *)

MaxOrders == 2
MaxCostRows == 2
MaxPayRows == 2
MaxAdsRows == 1
MaxRows == 3

-----------------------------------------------------------------------------
(* Cells *)

Num(n) == [num |-> TRUE, v |-> n]
NaN == [num |-> FALSE, v |-> 0]

\* pd.to_numeric(..., errors='coerce'): a number stays, anything else is NaN
to_numeric(c) == IF c.num THEN c ELSE NaN

\* Series.fillna(x)
fillna(c, x) == IF c.num THEN c ELSE Num(x)

\* A SKU cell is a string or a number; astype(str) prints the number
Str(t) == [str |-> TRUE, text |-> t]
Number(t) == [str |-> FALSE, text |-> t]
astype_str(c) == Str(c.text)

\* A status cell is text (a sequence of tokens, " " being whitespace) or NaN
NaStatus == [na |-> TRUE, text |-> <<>>]
Text(t) == [na |-> FALSE, text |-> t]

RECURSIVE lstrip(_)
lstrip(t) == IF t # <<>> /\ Head(t) = " " THEN lstrip(Tail(t)) ELSE t

RECURSIVE rstrip(_)
rstrip(t) ==
    IF t # <<>> /\ t[Len(t)] = " " THEN rstrip(SubSeq(t, 1, Len(t) - 1)) ELSE t

\* Series.str.strip(): NaN stays NaN
str_strip(s) == IF s.na THEN s ELSE Text(lstrip(rstrip(s.text)))

Abs(n) == IF n < 0 THEN -n ELSE n

RECURSIVE Flatten(_)
Flatten(ss) == IF ss = <<>> THEN <<>> ELSE Head(ss) \o Flatten(Tail(ss))

\* pd.merge(L, R, left_on, right_on, how='left'): every left row once per
\* matching right row, in left order; a left row without a match is kept once,
\* with the right columns missing
merge_left(L, R, left_on, right_on, missing) ==
    Flatten([i \in 1..Len(L) |->
        LET m == SelectSeq(R, LAMBDA r : r[right_on] = L[i][left_on])
        IN  IF m = <<>> THEN <<[left |-> L[i], right |-> missing]>>
            ELSE [j \in 1..Len(m) |-> [left |-> L[i], right |-> m[j]]]])

-----------------------------------------------------------------------------
(* process_data, step by step *)

\* orders_raw with a missing quantity filled with 1
orders_raw_fill_one(df_orders) ==
    [i \in 1..Len(df_orders) |->
        [id |-> df_orders[i].id, SKU |-> df_orders[i].SKU,
         Quantity |-> fillna(to_numeric(df_orders[i].Quantity), 1).v]]

\* df_orders[["Sub Order No", "SKU", "Quantity"]] with Quantity made numeric
orders_raw(df_orders) ==
    [i \in 1..Len(df_orders) |->
        [id |-> df_orders[i].id, SKU |-> df_orders[i].SKU,
         Quantity |-> fillna(to_numeric(df_orders[i].Quantity), 0).v]]

\* pd.concat([df_same_sheet, df_next_sheet], ignore_index=True)
order_status(df_same, df_next) == df_same \o df_next

prepare_for_pivot(df) ==
    [i \in 1..Len(df) |->
        [df[i] EXCEPT !.amount = fillna(to_numeric(@), 0)]]

\* drop_duplicates with keep='last'
RECURSIVE drop_duplicates_last(_)
drop_duplicates_last(df) ==
    IF df = <<>> THEN <<>>
    ELSE LET rest == drop_duplicates_last(Tail(df))
         IN  IF \E i \in 1..Len(rest) : rest[i].id = Head(df).id
             THEN rest ELSE <<Head(df)>> \o rest

\* DataFrame.drop_duplicates(subset=['Sub Order No'], keep='first')
RECURSIVE drop_duplicates(_)
drop_duplicates(df) ==
    IF df = <<>> THEN <<>>
    ELSE LET init == drop_duplicates(SubSeq(df, 1, Len(df) - 1))
             last == df[Len(df)]
         IN  IF \E i \in 1..Len(init) : init[i].id = last.id
             THEN init ELSE Append(init, last)

\* group_sum keeping only the last amount of the order id
RECURSIVE group_last(_, _)
group_last(df, id) ==
    IF df = <<>> THEN 0
    ELSE IF Head(df).id = id /\ group_last(Tail(df), id) = 0
         THEN Head(df).amount.v ELSE group_last(Tail(df), id)

\* sum of the prepared amounts of the rows of one order id
RECURSIVE group_sum(_, _)
group_sum(df, id) ==
    IF df = <<>> THEN 0
    ELSE (IF Head(df).id = id THEN Head(df).amount.v ELSE 0)
         + group_sum(Tail(df), id)

\* pd.pivot_table(values='Final Settlement Amount', index=['Sub Order No'],
\* aggfunc='sum').reset_index(): one row per order id of the sheet
pivot_table(df) ==
    LET keys == drop_duplicates(df)
    IN  [i \in 1..Len(keys) |->
            [id |-> keys[i].id, pay |-> Num(group_sum(df, keys[i].id))]]

\* row_total with the next-month column winning over the same-month one
row_total_overwrite(same_pay, next_pay) ==
    IF next_pay.num THEN next_pay.v ELSE IF same_pay.num THEN same_pay.v ELSE 0

\* DataFrame.sum(axis=1, skipna=True) over the two pay columns
row_total(same_pay, next_pay) ==
    (IF same_pay.num THEN same_pay.v ELSE 0)
    + (IF next_pay.num THEN next_pay.v ELSE 0)

\* the two payment merges and the 'total' column
merge_payments(df, df_pivot_same, df_pivot_next) ==
    LET m1 == merge_left(df, df_pivot_same, "id", "id", [pay |-> NaN])
        d1 == [i \in 1..Len(m1) |->
                  [id |-> m1[i].left.id, SKU |-> m1[i].left.SKU,
                   Quantity |-> m1[i].left.Quantity,
                   same_pay |-> m1[i].right.pay]]
        m2 == merge_left(d1, df_pivot_next, "id", "id", [pay |-> NaN])
    IN  [i \in 1..Len(m2) |->
            [id |-> m2[i].left.id, SKU |-> m2[i].left.SKU,
             Quantity |-> m2[i].left.Quantity,
             same_pay |-> m2[i].left.same_pay, next_pay |-> m2[i].right.pay,
             total |-> row_total(m2[i].left.same_pay, m2[i].right.pay)]]

\* status_lookup and its left merge; the column is renamed to 'status'
merge_status(df, df_order_status) ==
    LET m == merge_left(df, drop_duplicates(df_order_status), "id", "id",
                        [status |-> NaStatus])
    IN  [i \in 1..Len(m) |->
            [id |-> m[i].left.id, SKU |-> m[i].left.SKU,
             Quantity |-> m[i].left.Quantity,
             same_pay |-> m[i].left.same_pay, next_pay |-> m[i].left.next_pay,
             total |-> m[i].left.total, status |-> m[i].right.status]]

\* the statuses of the isin(...) test
CostBearing == {<<"Delivered">>, <<"Exchanged">>}

\* condition true of every order that has a status
condition_any_status(status) == ~status.na

\* condition: status.str.strip().isin(['Delivered', 'Exchanged'])
condition(status) ==
    LET s == str_strip(status) IN ~s.na /\ s.text \in CostBearing

\* cost_of without the status test
cost_of_any_status(status, Cost_Value) == fillna(Cost_Value, 0).v

\* cost = np.where(condition, Cost_Value, 0).fillna(0)
cost_of(status, Cost_Value) ==
    fillna(IF condition(status) THEN Cost_Value ELSE Num(0), 0).v

\* cost_lookup: the first two columns of the cost file, SKU as a string
cost_lookup(df_cost) ==
    [i \in 1..Len(df_cost) |->
        [SKU_Lookup |-> astype_str(df_cost[i].SKU),
         Cost_Value |-> Num(df_cost[i].cost)]]

\* the packaging cost column
packaging_cost(status, packaging_cost_value) == packaging_cost_value

\* SKU as a string, the merge with cost_lookup, then the cost, actual cost and
\* packaging columns
cost_logic(df, df_cost, packaging_cost_value) ==
    LET d == [i \in 1..Len(df) |-> [df[i] EXCEPT !.SKU = astype_str(@)]]
        m == merge_left(d, cost_lookup(df_cost), "SKU", "SKU_Lookup",
                        [Cost_Value |-> NaN])
    IN  [i \in 1..Len(m) |->
            LET l == m[i].left
                c == cost_of(l.status, m[i].right.Cost_Value)
            IN  [id |-> l.id, SKU |-> l.SKU, Quantity |-> l.Quantity,
                 same_pay |-> l.same_pay, next_pay |-> l.next_pay,
                 total |-> l.total, status |-> l.status,
                 cost |-> c, actual_cost |-> c * l.Quantity,
                 packaging_cost |-> packaging_cost(l.status, packaging_cost_value)]]

\* the reconciled table df_orders_final
orders_final(df_orders, df_same, df_next, df_cost, packaging_cost_value) ==
    LET df_pivot_same == pivot_table(prepare_for_pivot(df_same))
        df_pivot_next == pivot_table(prepare_for_pivot(df_next))
        paid == merge_payments(orders_raw(df_orders), df_pivot_same, df_pivot_next)
        withStatus == merge_status(paid, order_status(df_same, df_next))
    IN  cost_logic(withStatus, df_cost, packaging_cost_value)

\* Series.sum(skipna=True) of one column of the reconciled table
RECURSIVE column_sum(_, _)
column_sum(df, col) ==
    IF df = <<>> THEN 0 ELSE Head(df)[col] + column_sum(Tail(df), col)

\* pd.to_numeric(column, errors='coerce').sum()
RECURSIVE cells_sum(_)
cells_sum(cells) ==
    IF cells = <<>> THEN 0
    ELSE (IF to_numeric(Head(cells)).num THEN Head(cells).v ELSE 0)
         + cells_sum(Tail(cells))

\* the 'Ads Cost' sheet of a payment file: its sum, or 0 when reading it fails
ads_sum(file) == IF file.has_ads THEN cells_sum(file.ads) ELSE 0

\* profit_loss deducting both ads sums
profit_loss_both_ads(total_payment_sum, total_actual_cost_sum, total_packaging_sum, same_ads_sum, next_ads_sum, misc_cost_value) ==
    total_payment_sum - total_actual_cost_sum - total_packaging_sum
    - Abs(same_ads_sum) - Abs(next_ads_sum)

\* profit_loss_value
profit_loss(total_payment_sum, total_actual_cost_sum, total_packaging_sum, same_ads_sum, next_ads_sum, misc_cost_value) ==
    total_payment_sum - total_actual_cost_sum - total_packaging_sum
    - Abs(same_ads_sum)

\* the stats dictionary
final_stats(df, same_ads_sum, next_ads_sum, misc_cost_value) ==
    [TotalPayments |-> column_sum(df, "total"),
     TotalCost |-> column_sum(df, "cost"),
     TotalActualCost |-> column_sum(df, "actual_cost"),
     TotalPackagingCost |-> column_sum(df, "packaging_cost"),
     SameMonthAdsCost |-> same_ads_sum,
     NextMonthAdsCost |-> next_ads_sum,
     MiscellaneousCost |-> misc_cost_value,
     ProfitLoss |-> profit_loss(column_sum(df, "total"),
                                column_sum(df, "actual_cost"),
                                column_sum(df, "packaging_cost"),
                                same_ads_sum, next_ads_sum, misc_cost_value)]

\* read_ok when one payment file is enough
read_ok_one_payment_file(orders, same, next, cost) ==
    orders.ok /\ cost.ok /\ (same.ok \/ next.ok)

\* the outer try block: every file must be read
read_ok(orders, same, next, cost) == orders.ok /\ same.ok /\ next.ok /\ cost.ok

None == <<>>
Some(x) == <<x>>

\* process_data after all four files were read: (df_orders_final, stats)
process_data(orders, same, next, cost, packaging_cost_value, misc_cost_value) ==
    LET df == orders_final(orders.rows, same.pay, next.pay, cost.rows,
                           packaging_cost_value)
    IN  [excel |-> df,
         stats |-> final_stats(df, ads_sum(same), ads_sum(next), misc_cost_value)]

-----------------------------------------------------------------------------
(* The uploaded inputs that are explored *)

OrderIds == {"S1", "S2"}
OrderSkus == {Number("7")}
QuantityCells == {Num(2), NaN}
CostSkus == {Str("7"), Str("A")}
CostValues == {5, 9}
StatusCells == {Text(<<"Delivered", " ">>), Text(<<"Cancelled">>)}
AmountCells == {Num(10), NaN}
AdsCells == {Num(-200), Num(50), NaN}
PackValues == {0, 5}
MiscValues == {-2, 0, 3}

Min(a, b) == IF a < b THEN a ELSE b
BSeq(S, n) == UNION {[1..k -> S] : k \in 0..n}

OrderRows == [id : OrderIds, SKU : OrderSkus, Quantity : QuantityCells]
CostRows == [SKU : CostSkus, cost : CostValues]
PayRows == [id : OrderIds, status : StatusCells, amount : AmountCells]

Unreadable == [ok |-> FALSE, rows |-> <<>>]
UnreadablePay == [ok |-> FALSE, pay |-> <<>>, has_ads |-> FALSE, ads |-> <<>>]

TableFiles(Rows, n) == {Unreadable} \cup {[ok |-> TRUE, rows |-> r] : r \in BSeq(Rows, n)}

\* a readable payment file: the 'Order Payments' rows, and the 'Ads Cost'
\* column when the file has that sheet
PaymentFiles(n) ==
    {UnreadablePay}
    \cup UNION {
        {[ok |-> TRUE, pay |-> r, has_ads |-> FALSE, ads |-> <<>>]}
        \cup {[ok |-> TRUE, pay |-> r, has_ads |-> TRUE, ads |-> a] :
                  a \in BSeq(AdsCells, Min(MaxAdsRows, n - Len(r))) \ {<<>>}} :
        r \in BSeq(PayRows, Min(MaxPayRows, n))}

Size(file) == IF "rows" \in DOMAIN file THEN Len(file.rows)
              ELSE Len(file.pay) + Len(file.ads)

Init ==
    /\ orders_file \in TableFiles(OrderRows, MaxOrders)
    /\ cost_file \in TableFiles(CostRows, Min(MaxCostRows, MaxRows - Size(orders_file)))
    /\ same_month_file \in
           PaymentFiles(MaxRows - Size(orders_file) - Size(cost_file))
    /\ next_month_file \in
           PaymentFiles(MaxRows - Size(orders_file) - Size(cost_file)
                        - Size(same_month_file))
    /\ pack_cost \in PackValues
    /\ misc_cost \in MiscValues
    /\ excel_data = None
    /\ stats = None
    /\ pc = "ready"

\* the button, all four files readable: the report and the stats
Process ==
    /\ pc = "ready"
    /\ read_ok(orders_file, same_month_file, next_month_file, cost_file)
    /\ LET r == process_data(orders_file, same_month_file, next_month_file,
                             cost_file, pack_cost, misc_cost)
       IN  /\ excel_data' = Some(r.excel)
           /\ stats' = Some(r.stats)
    /\ pc' = "done"
    /\ UNCHANGED <<orders_file, same_month_file, next_month_file, cost_file,
                   pack_cost, misc_cost>>

\* the button, a file that cannot be read: return None, None
ProcessError ==
    /\ pc = "ready"
    /\ ~read_ok(orders_file, same_month_file, next_month_file, cost_file)
    /\ excel_data' = None
    /\ stats' = None
    /\ pc' = "failed"
    /\ UNCHANGED <<orders_file, same_month_file, next_month_file, cost_file,
                   pack_cost, misc_cost>>

\* the two payment files uploaded the other way round, and the button again
ProcessSwapped ==
    /\ pc = "done"
    /\ same_month_file' = next_month_file
    /\ next_month_file' = same_month_file
    /\ LET r == process_data(orders_file, next_month_file, same_month_file,
                             cost_file, pack_cost, misc_cost)
       IN  /\ excel_data' = Some(r.excel)
           /\ stats' = Some(r.stats)
    /\ pc' = "redone"
    /\ UNCHANGED <<orders_file, cost_file, pack_cost, misc_cost>>

Next == Process \/ ProcessError \/ ProcessSwapped

Spec == Init /\ [][Next]_vars

-----------------------------------------------------------------------------
(* Vocabulary of the properties *)

Done == pc \in {"done", "redone"}
Table == excel_data[1]
Stats == stats[1]
Master == orders_file.rows
AllPayments == same_month_file.pay \o next_month_file.pay

MasterIds == {Master[i].id : i \in 1..Len(Master)}
RowsOf(id) == {i \in 1..Len(Table) : Table[i].id = id}
EntriesOf(id) == {i \in 1..Len(AllPayments) : AllPayments[i].id = id}

\* the numeric settlement amounts of a set of payment entries, added up
RECURSIVE AmountOver(_)
AmountOver(I) ==
    IF I = {} THEN 0
    ELSE LET i == CHOOSE j \in I : TRUE
         IN  (IF AllPayments[i].amount.num THEN AllPayments[i].amount.v ELSE 0)
             + AmountOver(I \ {i})

\* the numeric cells of the 'Ads Cost' column of a payment file, added up
RECURSIVE AdsOver(_, _)
AdsOver(file, I) ==
    IF I = {} THEN 0
    ELSE LET i == CHOOSE j \in I : TRUE
         IN  (IF file.ads[i].num THEN file.ads[i].v ELSE 0) + AdsOver(file, I \ {i})

AdsColumn(file) == AdsOver(file, 1..Len(file.ads))
Magnitude(n) == IF n >= 0 THEN n ELSE 0 - n

\* delivered or exchanged, surrounding whitespace ignored
IsCostBearing(status) ==
    /\ ~status.na
    /\ SelectSeq(status.text, LAMBDA t : t # " ") \in {<<"Delivered">>, <<"Exchanged">>}
IsCancelled(status) == ~status.na /\ status.text = <<"Cancelled">>

\* the unit costs the cost table lists for a SKU; the fallback when it lists none
DefaultUnitCost == 0
UnitCosts(sku) ==
    LET listed == {cost_file.rows[i].cost :
                      i \in {j \in 1..Len(cost_file.rows) :
                                 cost_file.rows[j].SKU.text = sku.text}}
    IN  IF listed = {} THEN {DefaultUnitCost} ELSE listed

\* the master rows a reconciled row comes from
MasterRowsOf(r) ==
    {i \in 1..Len(Master) : Master[i].id = r.id /\ Master[i].SKU.text = r.SKU.text}

-----------------------------------------------------------------------------
(* C1 *)

\* C1: the reconciled table has exactly one row per unique order id of the
\* master table (duplicate master rows collapsed, a SKU listed twice in the
\* cost table not multiplying rows), an order without payment having total 0.
C1_OneRowPerOrderId ==
    Done => \A id \in OrderIds :
        /\ Cardinality(RowsOf(id)) = (IF id \in MasterIds THEN 1 ELSE 0)
        /\ EntriesOf(id) = {} => \A i \in RowsOf(id) : Table[i].total = 0

\* the settlement amounts of the entries of the order ids of rows n..Len(Table)
RECURSIVE AmountOfRowsFrom(_)
AmountOfRowsFrom(n) ==
    IF n > Len(Table) THEN 0
    ELSE AmountOver(EntriesOf(Table[n].id)) + AmountOfRowsFrom(n + 1)

\* C2 as stated: Total Payments equals the sum of all settlement amounts of
\* all payment entries of both payment sheets.
C2_Conservation ==
    Done => Stats.TotalPayments = AmountOver(1..Len(AllPayments))

\* C2, amended: every row's total is the sum of all settlement amounts of all
\* entries of both sheets with the row's order id, none overwritten, and
\* Total Payments is the sum of these totals over the rows of the table;
\* entries of an order id outside the master table are in no row.
C2_RowTotalsConserved ==
    Done =>
        /\ \A i \in 1..Len(Table) :
               Table[i].total = AmountOver(EntriesOf(Table[i].id))
        /\ Stats.TotalPayments = AmountOfRowsFrom(1)

\* an order paid in both sheets, both amounts in its total
C2_Witness ==
    /\ Done
    /\ \E i \in 1..Len(Table) :
           /\ \E j \in 1..Len(same_month_file.pay) :
                  /\ same_month_file.pay[j].id = Table[i].id
                  /\ same_month_file.pay[j].amount.num
           /\ \E j \in 1..Len(next_month_file.pay) :
                  /\ next_month_file.pay[j].id = Table[i].id
                  /\ next_month_file.pay[j].amount.num
           /\ Table[i].total = 20

\* C3: Profit / Loss = total settlement - product cost - packaging cost
\* - advertising overhead of the whole run - miscellaneous cost.
C3_ProfitFormula ==
    Done => Stats.ProfitLoss =
                Stats.TotalPayments - Stats.TotalActualCost - Stats.TotalPackagingCost
                - (Magnitude(AdsColumn(same_month_file))
                   + Magnitude(AdsColumn(next_month_file)))
                - misc_cost

-----------------------------------------------------------------------------
(* C4 *)

\* C4 as stated: a row whose status is 'Cancelled' has packaging cost 0 and
\* product cost 0.
C4_CancelledNoCosts ==
    Done => \A i \in 1..Len(Table) :
        IsCancelled(Table[i].status) =>
            Table[i].packaging_cost = 0 /\ Table[i].actual_cost = 0

\* C4, amended: a row whose status is 'Cancelled' has product cost 0, whatever
\* the cost table gives for its SKU, and carries the configured packaging fee
\* like every other row.
C4_CancelledRow ==
    Done => \A i \in 1..Len(Table) :
        IsCancelled(Table[i].status) =>
            /\ Table[i].cost = 0
            /\ Table[i].actual_cost = 0
            /\ Table[i].packaging_cost = pack_cost

\* a cancelled order of two units whose SKU the cost table lists, fee 5
C4_Witness ==
    /\ Done
    /\ pack_cost = 5
    /\ \E i \in 1..Len(Table) :
           /\ IsCancelled(Table[i].status)
           /\ Table[i].Quantity = 2
           /\ UnitCosts(Table[i].SKU) \in {{5}, {9}}

-----------------------------------------------------------------------------
(* C5 *)

FirstEntry(id) == CHOOSE i \in EntriesOf(id) : \A j \in EntriesOf(id) : i <= j
LastEntry(id) == CHOOSE i \in EntriesOf(id) : \A j \in EntriesOf(id) : i >= j

\* C5 as stated: the status of a reconciled order is that of its entry
\* encountered last, same-month sheet first and next-month sheet second; the
\* summed amount does not depend on it.
C5_LastStatusWins ==
    Done => \A i \in 1..Len(Table) :
        /\ EntriesOf(Table[i].id) # {} =>
               Table[i].status = AllPayments[LastEntry(Table[i].id)].status
        /\ Table[i].total = AmountOver(EntriesOf(Table[i].id))

\* C5, amended: the status is that of the entry encountered first, so a
\* same-month entry's status overrides a next-month entry's; an order without
\* entry has no status; the summed amount does not depend on it.
C5_FirstStatusWins ==
    Done => \A i \in 1..Len(Table) :
        /\ Table[i].status =
               (IF EntriesOf(Table[i].id) = {} THEN NaStatus
                ELSE AllPayments[FirstEntry(Table[i].id)].status)
        /\ Table[i].total = AmountOver(EntriesOf(Table[i].id))

\* an order with a same-month and a next-month entry of different statuses
C5_Witness ==
    /\ Done
    /\ \E i \in 1..Len(Table) :
           \E j \in 1..Len(same_month_file.pay), k \in 1..Len(next_month_file.pay) :
               /\ same_month_file.pay[j].id = Table[i].id
               /\ next_month_file.pay[k].id = Table[i].id
               /\ same_month_file.pay[j].status # next_month_file.pay[k].status
               /\ Table[i].status = same_month_file.pay[j].status

-----------------------------------------------------------------------------
(* C6 *)

\* what the run deducts from the payments besides product and packaging cost
Deducted ==
    Stats.TotalPayments - Stats.TotalActualCost - Stats.TotalPackagingCost
    - Stats.ProfitLoss

\* C6 as stated: the advertising overhead deducted is the absolute value of the
\* ads-cost column summed over every payment file that has the column.
C6_AdsOfBothFiles ==
    Done => Deducted = Magnitude(AdsColumn(same_month_file))
                       + Magnitude(AdsColumn(next_month_file))

\* C6, amended: the advertising overhead deducted is the absolute value of the
\* ads-cost column sum of the same-month file alone (0 without that sheet); the
\* next-month sum is reported in the stats and not deducted.
C6_AdsOfSameMonthFile ==
    Done =>
        /\ Deducted = Magnitude(AdsColumn(same_month_file))
        /\ Stats.SameMonthAdsCost = AdsColumn(same_month_file)
        /\ Stats.NextMonthAdsCost = AdsColumn(next_month_file)

\* the same-month column sums to -200, the next-month file has a column too
C6_Witness ==
    /\ Done
    /\ same_month_file.has_ads /\ AdsColumn(same_month_file) = -200
    /\ next_month_file.has_ads /\ AdsColumn(next_month_file) # 0
    /\ Deducted = 200

-----------------------------------------------------------------------------
(* C7 *)

-----------------------------------------------------------------------------
(* C8 *)

BadQuantity(r) ==
    /\ MasterRowsOf(r) # {}
    /\ \A m \in MasterRowsOf(r) : ~Master[m].Quantity.num

\* C8 as stated: an order whose quantity is missing or non-numeric counts as
\* quantity 1 in its product cost.
C8_QuantityDefaultsToOne ==
    Done => \A i \in 1..Len(Table) :
        BadQuantity(Table[i]) =>
            Table[i].Quantity = 1 /\ Table[i].actual_cost = Table[i].cost

\* C8, amended: an order whose quantity is missing or non-numeric counts as
\* quantity 0, so its product cost is 0.
C8_QuantityDefaultsToZero ==
    Done => \A i \in 1..Len(Table) :
        BadQuantity(Table[i]) =>
            Table[i].Quantity = 0 /\ Table[i].actual_cost = 0

\* a delivered order without numeric quantity whose SKU has a unit cost
C8_Witness ==
    /\ Done
    /\ \E i \in 1..Len(Table) :
           /\ BadQuantity(Table[i])
           /\ IsCostBearing(Table[i].status)
           /\ Table[i].cost > 0

-----------------------------------------------------------------------------
(* C9 *)

\* C9 as stated: with the two payment files exchanged the run yields the same
\* totals of settlement, packaging cost, advertising overhead and profit/loss.
C9_SwapSameAggregates ==
    [][ProcessSwapped =>
          /\ stats'[1].TotalPayments = stats[1].TotalPayments
          /\ stats'[1].TotalPackagingCost = stats[1].TotalPackagingCost
          /\ Magnitude(stats'[1].SameMonthAdsCost) = Magnitude(stats[1].SameMonthAdsCost)
          /\ stats'[1].ProfitLoss = stats[1].ProfitLoss]_vars

\* C9, amended: with the two payment files exchanged the run yields the same
\* number of rows, the same totals of settlement and packaging cost, and the
\* two ads sums exchanged; the deducted overhead, the product cost and the
\* profit/loss may differ.
C9_SwapKeepsPayments ==
    [][ProcessSwapped =>
          /\ Len(excel_data'[1]) = Len(excel_data[1])
          /\ stats'[1].TotalPayments = stats[1].TotalPayments
          /\ stats'[1].TotalPackagingCost = stats[1].TotalPackagingCost
          /\ stats'[1].SameMonthAdsCost = stats[1].NextMonthAdsCost
          /\ stats'[1].NextMonthAdsCost = stats[1].SameMonthAdsCost]_vars

\* a second run on exchanged, different payment files with a paid order
C9_Witness ==
    /\ pc = "redone"
    /\ same_month_file # next_month_file
    /\ next_month_file.pay # <<>>
    /\ Stats.TotalPayments > 0
    /\ Stats.TotalPackagingCost > 0

-----------------------------------------------------------------------------
(* C10 *)

ExactlyOnePaymentFileUnreadable ==
    /\ orders_file.ok /\ cost_file.ok
    /\ same_month_file.ok # next_month_file.ok

\* C10 as stated: when exactly one of the two payment files cannot be read,
\* the run still completes with a result computed from the other file.
C10_OneBadFileSkipped ==
    (pc # "ready" /\ ExactlyOnePaymentFileUnreadable) =>
        (pc = "done" /\ stats # None /\ excel_data # None)

\* C10, amended: when either payment file cannot be read the run fails and
\* returns no report and no stats; it completes only when all four files
\* were read.
C10_AnyBadFileFails ==
    pc # "ready" =>
        /\ (~same_month_file.ok \/ ~next_month_file.ok) =>
               (pc = "failed" /\ stats = None /\ excel_data = None)
        /\ Done <=> (orders_file.ok /\ cost_file.ok /\ same_month_file.ok
                     /\ next_month_file.ok)

\* a failed run whose only unreadable file is the next-month file, the
\* same-month file holding payments
C10_Witness ==
    /\ pc = "failed"
    /\ ExactlyOnePaymentFileUnreadable
    /\ same_month_file.ok /\ same_month_file.pay # <<>>
    /\ orders_file.rows # <<>>

====
